---- MODULE Spec2Model ----
(***************************************************************************)
(* A model of the BlackRoad dotfiles manager (src/dotfiles_manager.py):    *)
(* the two tables of its SQLite store, the part of the filesystem its      *)
(* commands read and write, and one action per cmd_* handler.              *)
(*                                                                         *)
(* Scope of the filesystem model: a path holds nothing, a regular file or  *)
(* a symbolic link.  Directories, permissions and I/O errors other than a  *)
(* symlink loop are not modelled, so mkdir(parents=True) has no effect     *)
(* here.  Path strings are normalised absolute paths, for which            *)
(* str(Path(p)) = p.                                                       *)
(***************************************************************************)
EXTENDS Integers, Sequences, FiniteSets, TLC

\* ---------------------------------------------------------------- bounds
\* Cap on the AUTOINCREMENT counter of table dotfiles.
MaxSeq == 6
\* Cap on the number of rows of table snapshots.
MaxSnaps == 2
\* Wall-clock readings datetime.now() can return are 1..MaxTime.
MaxTime == 2
\* File contents are 1..MaxContent.
MaxContent == 2

VARIABLES
    entries,       \* table dotfiles: a set of rows
    seq,           \* sqlite_sequence of table dotfiles (AUTOINCREMENT)
    snapshots,     \* table snapshots: a set of rows, ids 1..Cardinality
    fs,            \* the filesystem: path -> node
    manifest,      \* the manifest file written by export
    out,           \* what the last command was and what it reported
    exportedFrom   \* history: the rows of dotfiles when export last ran

vars == <<entries, seq, snapshots, fs, manifest, out, exportedFrom>>

\* ------------------------------------------------------------ filesystem
Absent == [kind |-> "absent", data |-> 0, to |-> ""]
File(c) == [kind |-> "file", data |-> c, to |-> ""]
Symlink(q) == [kind |-> "symlink", data |-> 0, to |-> q]

\* str(target) + ".bak" and str(path) + ".pre-restore"
Bak(p) == p \o ".bak"
PreRestore(p) == p \o ".pre-restore"

\* Every path a command of the model can name.
Paths ==
    LET base == {"s1", "s2", "t1", "t2", "lnk", "loop"}
    IN  base \cup {Bak(p) : p \in base} \cup {PreRestore(p) : p \in base}

Contents == 1..MaxContent

NodeAt(f, p) == IF p \in DOMAIN f THEN f[p] ELSE Absent

\* The result of following symbolic links from p; ELoop when they cycle.
ELoop == ""
RECURSIVE Follow(_, _, _)
Follow(f, p, hops) ==
    IF NodeAt(f, p).kind # "symlink" THEN p
    ELSE IF hops = 0 THEN ELoop
    ELSE Follow(f, NodeAt(f, p).to, hops - 1)

RealPath(f, p) == Follow(f, p, Cardinality(DOMAIN f))

\* Path.exists(): follows links; False on a dangling link or a loop.
PathExists(f, p) ==
    LET r == RealPath(f, p)
    IN  r # ELoop /\ NodeAt(f, r).kind = "file"

\* Path.is_symlink() and os.readlink()
IsSymlink(f, p) == NodeAt(f, p).kind = "symlink"
Readlink(f, p) == NodeAt(f, p).to

\* Path.read_bytes() of an existing path
ReadBytes(f, p) == NodeAt(f, RealPath(f, p)).data

\* Path.write_bytes(): open(p, "wb") follows links and creates the file.
WriteBytes(f, p, c) == [f EXCEPT ![RealPath(f, p)] = File(c)]

\* shutil.move(src, dst) with dst not a directory: os.rename, which
\* replaces whatever dst holds and does not follow links.
Move(f, src, dst) == [f EXCEPT ![dst] = f[src], ![src] = Absent]

\* os.symlink(src, dst) on a free dst
MakeSymlink(f, src, dst) == [f EXCEPT ![dst] = Symlink(src)]

\* shutil.copy2(src, dst): the bytes of src written through dst.
Copy2(f, src, dst) == WriteBytes(f, dst, ReadBytes(f, src))

\* str(Path(p).expanduser().resolve()): the link-free path.  On a symlink
\* loop Python up to 3.12 raises RuntimeError (ELoop here) and Python 3.13
\* returns the path unresolved.
ResolveOutcomes(f, p) ==
    IF RealPath(f, p) # ELoop THEN {RealPath(f, p)} ELSE {ELoop, p}

\* ----------------------------------------------------------------- store
CATEGORIES == {"shell", "editor", "git", "tmux", "tool"}

\* hashlib.sha256(content).hexdigest(): injective on contents and never
\* the empty string.
Sha256(c) == <<"sha256", c>>
EmptyDigest == <<>>

file_hash(f, p) ==
    IF PathExists(f, p) THEN Sha256(ReadBytes(f, p)) ELSE EmptyDigest

\* base64.b64encode(content).decode() and base64.b64decode(text)
B64Encode(c) == <<"b64", c>>
B64Decode(t) == t[2]

\* What a command printed: the command, its first argument, a second
\* argument or a count, and the message.
Report(cmd, arg, ref, msg) == [cmd |-> cmd, arg |-> arg, ref |-> ref, msg |-> msg]

Row(id, name, source, target, category, description, auto) ==
    [id |-> id, name |-> name, source_path |-> source, target_path |-> target,
     category |-> category, description |-> description, auto_update |-> auto]

\* A store whose UNIQUE(name) constraint is never violated.
NameTakenNever(rows, name) == FALSE

\* UNIQUE(name): whether an insert of this name conflicts.
NameTaken(rows, name) == \E e \in rows : e.name = name

\* INSERT INTO dotfiles under the UNIQUE(name) constraint.
cmd_register(name, source, target, category, description, auto) ==
    IF category \notin CATEGORIES
    THEN /\ out' = Report("register", name, 0, "bad category")
         /\ UNCHANGED <<entries, seq, snapshots, fs, manifest, exportedFrom>>
    ELSE \E src \in ResolveOutcomes(fs, source) :
            IF src = ELoop
            THEN /\ out' = Report("register", name, 0, "RuntimeError")
                 /\ UNCHANGED <<entries, seq, snapshots, fs, manifest, exportedFrom>>
            ELSE IF NameTaken(entries, name)
            THEN /\ out' = Report("register", name, 0, "already registered")
                 /\ UNCHANGED <<entries, seq, snapshots, fs, manifest, exportedFrom>>
            ELSE /\ seq < MaxSeq
                 /\ entries' = entries \cup
                        {Row(seq + 1, name, src, target, category, description,
                             IF auto THEN 1 ELSE 0)}
                 /\ seq' = seq + 1
                 /\ out' = Report("register", name, seq + 1, "registered")
                 /\ UNCHANGED <<snapshots, fs, manifest, exportedFrom>>

\* ORDER BY category, name: SQLite's binary collation on the strings of
\* the model.
CategoryOrder == <<"bogus", "editor", "git", "shell", "tmux", "tool">>
NameOrder == <<"n1", "n2">>
RankIn(s, x) == CHOOSE i \in 1..Len(s) : s[i] = x
RowBefore(a, b) ==
    \/ RankIn(CategoryOrder, a.category) < RankIn(CategoryOrder, b.category)
    \/ /\ a.category = b.category
       /\ RankIn(NameOrder, a.name) <= RankIn(NameOrder, b.name)

RECURSIVE SortRows(_)
SortRows(rows) ==
    IF rows = {} THEN <<>>
    ELSE LET first == CHOOSE a \in rows : \A b \in rows : RowBefore(a, b)
         IN  <<first>> \o SortRows(rows \ {first})

\* json.dump([dict(r) for r in rows]): one object per row, every column.
cmd_export_manifest ==
    /\ manifest' = [exists |-> TRUE, items |-> SortRows(entries)]
    /\ exportedFrom' = entries
    /\ out' = Report("export", "manifest", Cardinality(entries), "exported")
    /\ UNCHANGED <<entries, seq, snapshots, fs>>

\* A lookup that ignores the item's own value.
GetDefault(item, key, default) == default

\* item.get(key, default)
Get(item, key, default) == IF key \in DOMAIN item THEN item[key] ELSE default

\* The loop of cmd_import_manifest over the items of the document.  An
\* item without name, source_path or target_path raises KeyError, which
\* the loop swallows.  INSERT OR IGNORE draws an id from the sequence
\* whether or not the row is kept.
RECURSIVE ImportItems(_, _, _, _)
ImportItems(rows, s, imported, items) ==
    IF items = <<>> THEN [rows |-> rows, seq |-> s, imported |-> imported]
    ELSE LET item == Head(items)
         IN  IF {"name", "source_path", "target_path"} \subseteq DOMAIN item
             THEN LET row == Row(s + 1, item.name, item.source_path,
                                 item.target_path,
                                 Get(item, "category", "tool"),
                                 Get(item, "description", ""),
                                 Get(item, "auto_update", 0))
                  IN  ImportItems(IF NameTaken(rows, item.name) THEN rows
                                  ELSE rows \cup {row},
                                  s + 1, imported + 1, Tail(items))
             ELSE ImportItems(rows, s, imported, Tail(items))

\* Documents that did not come from export.
ForeignDocs ==
    [plain |-> << [name |-> "n1", source_path |-> "s1", target_path |-> "t1"] >>,
     mixed |-> << [name |-> "n2", source_path |-> "s2", target_path |-> "t2",
                   category |-> "bogus", description |-> "d", auto_update |-> 1],
                  [source_path |-> "s1", target_path |-> "t1"],
                  [name |-> "n2", source_path |-> "s1", target_path |-> "t1",
                   category |-> "git"] >>]

cmd_import_manifest(file) ==
    IF file = "manifest" /\ ~manifest.exists
    THEN /\ out' = Report("import", file, 0, "FileNotFoundError")
         /\ UNCHANGED <<entries, seq, snapshots, fs, manifest, exportedFrom>>
    ELSE LET data == IF file = "manifest" THEN manifest.items ELSE ForeignDocs[file]
             done == ImportItems(entries, seq, 0, data)
         IN  /\ done.seq <= MaxSeq
             /\ entries' = done.rows
             /\ seq' = done.seq
             /\ out' = Report("import", file, done.imported, "imported")
             /\ UNCHANGED <<snapshots, fs, manifest, exportedFrom>>

\* DELETE FROM dotfiles, the store emptied by hand; AUTOINCREMENT keeps
\* the sequence.
ClearStore ==
    /\ entries # {}
    /\ entries' = {}
    /\ out' = Report("clear", "", 0, "")
    /\ UNCHANGED <<seq, snapshots, fs, manifest, exportedFrom>>

\* ------------------------------------------------------------------ link
HasEntry(id) == \E e \in entries : e.id = id
EntryById(id) == CHOOSE e \in entries : e.id = id

\* A comparison of the link text with the wrong path.
AlreadyLinkedToSelf(f, target, source) ==
    IsSymlink(f, target) /\ Readlink(f, target) = target

\* target.is_symlink() and os.readlink(str(target)) == str(source)
AlreadyLinked(f, target, source) ==
    IsSymlink(f, target) /\ Readlink(f, target) = source

cmd_link(entry_id) ==
    IF ~HasEntry(entry_id)
    THEN /\ out' = Report("link", entry_id, 0, "not found")
         /\ UNCHANGED <<entries, seq, snapshots, fs, manifest, exportedFrom>>
    ELSE LET e == EntryById(entry_id)
             target == e.target_path
             source == e.source_path
         IN  IF ~PathExists(fs, source)
             THEN /\ out' = Report("link", entry_id, 0, "source missing")
                  /\ UNCHANGED <<entries, seq, snapshots, fs, manifest, exportedFrom>>
             ELSE IF PathExists(fs, target) \/ IsSymlink(fs, target)
             THEN IF AlreadyLinked(fs, target, source)
                  THEN /\ out' = Report("link", entry_id, 0, "already linked")
                       /\ UNCHANGED <<entries, seq, snapshots, fs, manifest, exportedFrom>>
                  ELSE /\ fs' = MakeSymlink(Move(fs, target, Bak(target)), source, target)
                       /\ out' = Report("link", entry_id, 1, "linked")
                       /\ UNCHANGED <<entries, seq, snapshots, manifest, exportedFrom>>
             ELSE /\ fs' = MakeSymlink(fs, source, target)
                  /\ out' = Report("link", entry_id, 0, "linked")
                  /\ UNCHANGED <<entries, seq, snapshots, manifest, exportedFrom>>

\* _do_link(e): the filesystem it leaves.
do_link(f, e) ==
    LET target == e.target_path
        source == e.source_path
    IN  IF ~PathExists(f, source) THEN f
        ELSE IF PathExists(f, target) \/ IsSymlink(f, target)
        THEN IF AlreadyLinked(f, target, source) THEN f
             ELSE MakeSymlink(Move(f, target, Bak(target)), source, target)
        ELSE MakeSymlink(f, source, target)

\* A loop that stops at the first entry whose source is missing.
RECURSIVE LinkEachOrStop(_, _)
LinkEachOrStop(f, rows) ==
    IF rows = <<>> \/ ~PathExists(f, Head(rows).source_path) THEN f
    ELSE LinkEachOrStop(do_link(f, Head(rows)), Tail(rows))

\* for row in rows: _do_link(row_to_entry(row))
RECURSIVE LinkEach(_, _)
LinkEach(f, rows) ==
    IF rows = <<>> THEN f ELSE LinkEach(do_link(f, Head(rows)), Tail(rows))

\* The orders in which a SELECT without ORDER BY may return a set of rows.
RowOrders(rows) ==
    {o \in [1..Cardinality(rows) -> rows] : \A r \in rows : \E i \in DOMAIN o : o[i] = r}

AutoRows(rows) == {e \in rows : e.auto_update = 1}

cmd_sync_all ==
    IF AutoRows(entries) = {}
    THEN /\ out' = Report("sync-all", "", 0, "none enabled")
         /\ UNCHANGED <<entries, seq, snapshots, fs, manifest, exportedFrom>>
    ELSE \E rows \in RowOrders(AutoRows(entries)) :
            /\ fs' = LinkEach(fs, rows)
            /\ out' = Report("sync-all", "", Len(rows), "synced")
            /\ UNCHANGED <<entries, seq, snapshots, manifest, exportedFrom>>

\* ------------------------------------------------------------- snapshots
SnapshotsOf(entry_id) == {x \in snapshots : x.entry_id = entry_id}

\* datetime.now().isoformat() is the local wall clock: the reading is an
\* input of backup, and a later backup may read an equal or earlier time.
cmd_backup(entry_id, notes, now) ==
    IF ~HasEntry(entry_id)
    THEN /\ out' = Report("backup", entry_id, 0, "not found")
         /\ UNCHANGED <<entries, seq, snapshots, fs, manifest, exportedFrom>>
    ELSE LET path == EntryById(entry_id).source_path
         IN  IF ~PathExists(fs, path)
             THEN /\ out' = Report("backup", entry_id, 0, "source missing")
                  /\ UNCHANGED <<entries, seq, snapshots, fs, manifest, exportedFrom>>
             ELSE LET content == ReadBytes(fs, path)
                      id == Cardinality(snapshots) + 1
                  IN  /\ id <= MaxSnaps
                      /\ snapshots' = snapshots \cup
                            {[id |-> id, entry_id |-> entry_id,
                              content_hash |-> Sha256(content),
                              content_b64 |-> B64Encode(content),
                              saved_at |-> now, notes |-> notes]}
                      /\ out' = Report("backup", entry_id, id, "saved")
                      /\ UNCHANGED <<entries, seq, fs, manifest, exportedFrom>>

\* A choice of the row inserted last among those saved last.
LatestById(snaps) ==
    {x \in snaps : \A y \in snaps :
        y.saved_at < x.saved_at \/ (y.saved_at = x.saved_at /\ y.id <= x.id)}

\* ORDER BY saved_at DESC LIMIT 1: a row with the greatest saved_at; SQL
\* leaves open which one when several rows share it.
Latest(snaps) == {x \in snaps : \A y \in snaps : y.saved_at <= x.saved_at}

\* The unified diff cmd_diff prints on a change goes through a temporary
\* file it removes again, and changes nothing.
cmd_diff(entry_id) ==
    IF ~HasEntry(entry_id)
    THEN /\ out' = Report("diff", entry_id, 0, "not found")
         /\ UNCHANGED <<entries, seq, snapshots, fs, manifest, exportedFrom>>
    ELSE IF SnapshotsOf(entry_id) = {}
    THEN /\ out' = Report("diff", entry_id, 0, "no snapshots")
         /\ UNCHANGED <<entries, seq, snapshots, fs, manifest, exportedFrom>>
    ELSE \E snap \in Latest(SnapshotsOf(entry_id)) :
            LET current_hash == file_hash(fs, EntryById(entry_id).source_path)
            IN  /\ out' = Report("diff", entry_id, snap.id,
                                 IF current_hash = snap.content_hash
                                 THEN "no changes" ELSE "changed")
                /\ UNCHANGED <<entries, seq, snapshots, fs, manifest, exportedFrom>>

\* A lookup by the wrong column.
SnapshotsWithEntryId(snapshot_id) == {x \in snapshots : x.entry_id = snapshot_id}

\* SELECT * FROM snapshots WHERE id=?
SnapshotsWithId(snapshot_id) == {x \in snapshots : x.id = snapshot_id}

cmd_restore(entry_id, snapshot_id) ==
    IF ~HasEntry(entry_id)
    THEN /\ out' = Report("restore", entry_id, snapshot_id, "not found")
         /\ UNCHANGED <<entries, seq, snapshots, fs, manifest, exportedFrom>>
    ELSE IF SnapshotsWithId(snapshot_id) = {}
    THEN /\ out' = Report("restore", entry_id, snapshot_id, "snapshot not found")
         /\ UNCHANGED <<entries, seq, snapshots, fs, manifest, exportedFrom>>
    ELSE \E snap \in SnapshotsWithId(snapshot_id) :
            LET content == B64Decode(snap.content_b64)
                path == EntryById(entry_id).source_path
                kept == IF PathExists(fs, path)
                        THEN Copy2(fs, path, PreRestore(path)) ELSE fs
            IN  IF RealPath(kept, path) = ELoop
                THEN /\ out' = Report("restore", entry_id, snapshot_id, "OSError")
                     /\ UNCHANGED <<entries, seq, snapshots, fs, manifest, exportedFrom>>
                ELSE /\ fs' = WriteBytes(kept, path, content)
                     /\ out' = Report("restore", entry_id, snapshot_id, "restored")
                     /\ UNCHANGED <<entries, seq, snapshots, manifest, exportedFrom>>

\* ----------------------------------------------------------- environment
\* The user writes a file (Path.write_text, through links).
EnvWrite(p, c) ==
    /\ RealPath(fs, p) # ELoop
    /\ NodeAt(fs, RealPath(fs, p)) # File(c)
    /\ fs' = WriteBytes(fs, p, c)
    /\ out' = Report("env", p, 0, "written")
    /\ UNCHANGED <<entries, seq, snapshots, manifest, exportedFrom>>

\* The user removes a file or a link.
EnvRemove(p) ==
    /\ NodeAt(fs, p) # Absent
    /\ fs' = [fs EXCEPT ![p] = Absent]
    /\ out' = Report("env", p, 0, "removed")
    /\ UNCHANGED <<entries, seq, snapshots, manifest, exportedFrom>>

\* The user makes a symbolic link at a free path.
EnvSymlink(p, q) ==
    /\ NodeAt(fs, p) = Absent
    /\ fs' = MakeSymlink(fs, q, p)
    /\ out' = Report("env", p, 0, "symlinked")
    /\ UNCHANGED <<entries, seq, snapshots, manifest, exportedFrom>>

\* ------------------------------------------------------------------ Init
EmptyFs == [p \in Paths |-> Absent]

\* A filesystem with a link and a link loop for register to resolve.
LinkedFs == [EmptyFs EXCEPT !["lnk"] = Symlink("s1"), !["loop"] = Symlink("loop"),
                            !["s1"] = File(1)]

InitStore(f) ==
    /\ entries = {}
    /\ seq = 0
    /\ snapshots = {}
    /\ fs = f
    /\ manifest = [exists |-> FALSE, items |-> <<>>]
    /\ out = Report("none", "", 0, "")
    /\ exportedFrom = {}

\* ------------------------------------------- register and import (C1, C9)
RegisterNext ==
    \/ \E name \in {"n1", "n2"}, source \in {"s1", "lnk", "loop"},
          category \in {"shell", "tool", "bogus"}, auto \in BOOLEAN :
            cmd_register(name, source, "t1", category, "", auto)
    \/ \E file \in DOMAIN ForeignDocs : cmd_import_manifest(file)

SpecRegister == InitStore(LinkedFs) /\ [][RegisterNext]_vars

NameUnique == \A a, b \in entries : a.name = b.name => a = b
NameCount(rows, name) == Cardinality({e \in rows : e.name = name})

\* A step that is a register call for a name the store already holds.
RegisterOfTakenName == out'.cmd = "register" /\ NameTaken(entries, out'.arg)

RegisterRefused ==
    /\ out'.msg = "already registered"
    /\ entries' = entries
    /\ NameCount(entries', out'.arg) = 1

C9_AsStated == \A e \in entries : e.category \in CATEGORIES

\* ------------------------------------------------ export and import (C5)
StoreNext ==
    \/ \E name \in {"n1", "n2"} :
            cmd_register(name, "s1", "t1", "shell", "d", TRUE)
    \/ \E file \in DOMAIN ForeignDocs \cup {"manifest"} : cmd_import_manifest(file)
    \/ cmd_export_manifest
    \/ ClearStore

SpecStore == InitStore(EmptyFs) /\ [][StoreNext]_vars

\* The columns export and import carry over; the id is the store's own.
Fields(rows) ==
    {[name |-> r.name, source_path |-> r.source_path, target_path |-> r.target_path,
      category |-> r.category, description |-> r.description,
      auto_update |-> r.auto_update] : r \in rows}

ImportOfExportIntoEmpty ==
    /\ entries = {}
    /\ out'.cmd = "import" /\ out'.arg = "manifest" /\ out'.msg = "imported"

\* C5: importing the exported manifest into an emptied store gives rows
\* equal, on every column but id, to the rows the store held at export.
C5_RoundTrip ==
    [][ImportOfExportIntoEmpty => Fields(entries') = Fields(exportedFrom)]_vars

C5_Witness ==
    /\ out.cmd = "import" /\ out.arg = "manifest" /\ out.msg = "imported"
    /\ Cardinality(entries) = 2
    /\ Fields(entries) = Fields(exportedFrom)
    /\ \A e \in entries : e \notin exportedFrom
    /\ \E e \in entries : e.category = "bogus"

\* -------------------------------------------------------------- link (C2)
LinkNext ==
    \/ \E target \in {"t1", "s1"} :
            cmd_register("n1", "s1", target, "tool", "", FALSE)
    \/ \E id \in 1..2 : cmd_link(id)
    \/ \E p \in {"s1", "t1"}, c \in Contents : EnvWrite(p, c)
    \/ \E p \in {"s1", "t1"} : EnvRemove(p)
    \/ \E p \in {"s1", "t1"}, q \in {"s1", "s2", "t1"} : EnvSymlink(p, q)

SpecLink == InitStore(EmptyFs) /\ [][LinkNext]_vars

\* A link call on an entry whose source exists.
LinkCall ==
    /\ out'.cmd = "link" /\ HasEntry(out'.arg)
    /\ PathExists(fs, EntryById(out'.arg).source_path)

Linked(f, e) == NodeAt(f, e.target_path) = Symlink(e.source_path)

\* The call after a link call that found the source, on the same entry.
LinkAgain ==
    /\ out.cmd = "link" /\ out.msg \in {"linked", "already linked"}
    /\ out'.cmd = "link" /\ out'.arg = out.arg

LinkFirst ==
    LinkCall => /\ out'.msg \in {"linked", "already linked"}
                /\ Linked(fs', EntryById(out'.arg))

LinkSecond ==
    /\ fs' = fs
    /\ Linked(fs', EntryById(out'.arg))
    /\ out'.msg = "already linked"

\* C2 as stated: a link call on an entry whose source exists leaves the
\* target a symlink to the source, and the next link call on that entry
\* changes nothing in the filesystem and reports "already linked".
C2_AsStated == [][LinkFirst /\ (LinkAgain => LinkSecond)]_vars

\* C2 amended: as C2, for a second call that still finds the source (the
\* first call removes it when the source path is, or resolves through,
\* the target path or its ".bak" path); a second call that does not find
\* the source changes nothing either and reports the source missing.
C2_Idempotent ==
    [][/\ LinkFirst
       /\ (LinkAgain /\ LinkCall) => LinkSecond
       /\ (LinkAgain /\ ~LinkCall) => (fs' = fs /\ out'.msg = "source missing")]_vars

C2_Witness ==
    /\ out.cmd = "link" /\ out.msg = "already linked"
    /\ Linked(fs, EntryById(out.arg))
    /\ NodeAt(fs, Bak(EntryById(out.arg).target_path)).kind = "file"
    /\ PathExists(fs, EntryById(out.arg).target_path)

\* ---------------------------------------------------------- sync_all (C7)
SyncNext ==
    \/ \E name \in {"n1", "n2"}, source \in {"s1", "s2"},
          target \in {"t1", "t2"}, auto \in BOOLEAN :
            cmd_register(name, source, target, "tool", "", auto)
    \/ cmd_sync_all
    \/ \E p \in {"s1", "s2", "t1"}, c \in Contents : EnvWrite(p, c)
    \/ \E p \in {"s1", "s2"} : EnvRemove(p)

SpecSync == InitStore(EmptyFs) /\ [][SyncNext]_vars

SyncStep == out'.cmd = "sync-all"

\* The paths linking e writes.
Written(e) == {e.target_path, Bak(e.target_path)}

\* No link is made for an entry without auto_update: its target is as it
\* was, unless an auto_update entry writes that very path.
NonAutoUntouched ==
    \A e \in entries \ AutoRows(entries) :
        (\A g \in AutoRows(entries) : e.target_path \notin Written(g))
            => NodeAt(fs', e.target_path) = NodeAt(fs, e.target_path)

\* C7 as stated: after sync_all every entry with auto_update set whose
\* source exists has its target a symlink to its source, whatever the other
\* entries and their order, and no link is made for an entry without
\* auto_update.
C7_AsStated ==
    [][SyncStep =>
        /\ \A e \in AutoRows(entries) :
                PathExists(fs, e.source_path) => Linked(fs', e)
        /\ NonAutoUntouched]_vars

\* The paths the source of e resolves through.
RECURSIVE Chain(_, _, _)
Chain(f, p, hops) ==
    IF NodeAt(f, p).kind # "symlink" \/ hops = 0 THEN {p}
    ELSE {p} \cup Chain(f, NodeAt(f, p).to, hops - 1)
SourceChain(f, e) == Chain(f, e.source_path, Cardinality(DOMAIN f))

\* No other auto_update entry writes a path the source of e resolves
\* through, moves its old target onto the target of e, or links the
\* target of e to another source.
Undisturbed(f, rows, e) ==
    \A g \in AutoRows(rows) \ {e} :
        /\ Written(g) \cap SourceChain(f, e) = {}
        /\ Bak(g.target_path) # e.target_path
        /\ g.target_path = e.target_path => g.source_path = e.source_path

\* C7 amended: after sync_all every entry with auto_update set whose
\* source exists has its target a symlink to its source, however many
\* other auto_update entries have a missing source and whatever their
\* order, provided no other auto_update entry has the same target with
\* another source, or has a path the source resolves through, or the
\* target itself, as its target or ".bak" path; no link is made for an
\* entry without auto_update.
C7_Isolated ==
    [][SyncStep =>
        /\ \A e \in AutoRows(entries) :
                (PathExists(fs, e.source_path) /\ Undisturbed(fs, entries, e))
                    => Linked(fs', e)
        /\ NonAutoUntouched]_vars

C7_Witness ==
    /\ out.cmd = "sync-all" /\ out.ref = 2
    /\ \E e \in AutoRows(entries) : Linked(fs, e) /\ PathExists(fs, e.target_path)
    /\ \E e \in AutoRows(entries) :
            ~PathExists(fs, e.source_path) /\ NodeAt(fs, e.target_path) = Absent

\* ------------------------------------- backup, diff and restore (C3..C10)
SourceOf == [n1 |-> "s1", n2 |-> "s2"]

SnapNext ==
    \/ \E name \in {"n1", "n2"} :
            cmd_register(name, SourceOf[name], "t1", "tool", "", FALSE)
    \/ \E id \in 1..2, now \in 1..MaxTime : cmd_backup(id, "", now)
    \/ \E id \in 1..2 : cmd_diff(id)
    \/ \E id \in 1..2, snapshot_id \in 1..MaxSnaps : cmd_restore(id, snapshot_id)
    \/ \E p \in {"s1", "s2"}, c \in Contents : EnvWrite(p, c)
    \/ \E p \in {"s1", "s2"} : EnvRemove(p)

SpecSnap == InitStore(EmptyFs) /\ [][SnapNext]_vars

\* One entry, its backups and restores, and the writes in between (C3).
RestoreNext ==
    \/ cmd_register("n1", "s1", "t1", "tool", "", FALSE)
    \/ \E id \in 1..2, now \in 1..MaxTime : cmd_backup(id, "", now)
    \/ \E id \in 1..2, snapshot_id \in 1..MaxSnaps : cmd_restore(id, snapshot_id)
    \/ \E c \in Contents : EnvWrite("s1", c)
    \/ EnvRemove("s1")

SpecRestore == InitStore(EmptyFs) /\ [][RestoreNext]_vars

SnapById(id) == CHOOSE x \in snapshots : x.id = id

\* A restore of a snapshot taken from the entry it is restored to.
RestoreOfOwn ==
    /\ out'.cmd = "restore" /\ HasEntry(out'.arg)
    /\ \E x \in snapshots : x.id = out'.ref /\ x.entry_id = out'.arg

\* C3: a restore of one of the entry's own snapshots succeeds and leaves
\* the source file with the bytes the backup read, whose digest the
\* snapshot holds, whatever was written or saved in between.
C3_RoundTrip ==
    [][RestoreOfOwn =>
        /\ out'.msg = "restored"
        /\ PathExists(fs', EntryById(out'.arg).source_path)
        /\ Sha256(ReadBytes(fs', EntryById(out'.arg).source_path))
              = SnapById(out'.ref).content_hash]_vars

C3_Witness ==
    /\ out.cmd = "restore" /\ out.msg = "restored"
    /\ SnapById(out.ref).entry_id = out.arg
    /\ Cardinality(SnapshotsOf(out.arg)) = 2
    /\ LET path == EntryById(out.arg).source_path
       IN  /\ file_hash(fs, path) = SnapById(out.ref).content_hash
           /\ PathExists(fs, PreRestore(path))
           /\ ReadBytes(fs, PreRestore(path)) # ReadBytes(fs, path)

\* C4 as stated: a diff right after a successful backup of the same entry
\* reports "no changes", and the digest of the source is the content_hash
\* of the snapshot the diff compared against.
C4_AsStated ==
    [][(/\ out.cmd = "backup" /\ out.msg = "saved"
        /\ out'.cmd = "diff" /\ out'.arg = out.arg)
        => /\ out'.msg = "no changes"
           /\ file_hash(fs', EntryById(out'.arg).source_path)
                 = SnapById(out'.ref).content_hash]_vars

\* C6 as stated: a restore for an unknown entry, or of a snapshot that is
\* not one of the entry's own, reports not found and changes no file.
C6_AsStated ==
    [][(out'.cmd = "restore" /\ ~RestoreOfOwn)
        => /\ out'.msg \in {"not found", "snapshot not found"}
           /\ fs' = fs]_vars

\* C8 as stated: the snapshot a diff compares against is the entry's own
\* snapshot with the greatest saved_at and, among those, the greatest id.
C8_AsStated ==
    [][(out'.cmd = "diff" /\ out'.msg \in {"no changes", "changed"})
        => SnapById(out'.ref) \in LatestById(SnapshotsOf(out'.arg))]_vars

\* C10 as stated: a diff of an entry that has a snapshot and whose source
\* cannot be read reports neither "no changes" nor "changed".
C10_AsStated ==
    (/\ out.cmd = "diff" /\ HasEntry(out.arg)
     /\ SnapshotsOf(out.arg) # {}
     /\ file_hash(fs, EntryById(out.arg).source_path) = EmptyDigest)
        => out.msg \notin {"no changes", "changed"}

\* ------------------------------------------------------- the whole tool
Init == InitStore(EmptyFs)

Next ==
    \/ RegisterNext
    \/ StoreNext
    \/ LinkNext
    \/ SyncNext
    \/ SnapNext
    \/ RestoreNext

Spec == Init /\ [][Next]_vars

====
